---- MODULE Spec2Model ----
(***************************************************************************)
(* Model of grpcpool (src/pool.go): a pool of grpc client connections.     *)
(*                                                                         *)
(* The pool owns two buffered channels of ClientConn wrappers, `clients`   *)
(* and `unhealthyClients`, both made with the same capacity.  Callers run  *)
(* Pool.Get, ClientConn.Unhealthy and ClientConn.Close; one more goroutine *)
(* runs Pool.Close.  Every operation is cut at its accesses to shared      *)
(* state (channel operations, the mutex-protected pointer swap, the atomic *)
(* counter, time.Now, the factory and grpc.ClientConn.Close).              *)
(*                                                                         *)
(* The handles that Get returned and that are not released yet wait in the *)
(* bag `held`; handle[p] is the handle caller p is releasing, and after    *)
(* the call the released handle, until the caller starts another call on   *)
(* another handle.                                                         *)
(***************************************************************************)
EXTENDS Integers, Sequences, FiniteSets, Bags, TLC

\* ------------------------------------------------------------------ bounds
NumCallers == 2      \* goroutines calling Get / ClientConn.Close
MaxHandles == 2      \* handles acquired and not yet released, at any moment
MaxCap == 1          \* largest capacity argument given to New
MaxConns == 2        \* connections the factory may produce in one run
MaxTime == 2         \* last value of the clock
MaxDuration == 1     \* largest idleTimeout / maxLifeDuration argument
MaxCapArg == 3       \* largest capacity argument where only New is followed

Callers == 1..NumCallers
Conns == 1..MaxConns
NilConn == 0         \* a nil *grpc.ClientConn
NilCounter == 0      \* a nil *ConcurrencyCounter
\* time.Time{}: the zero time, earlier than any clock value minus any duration
ZeroTime == 0 - (MaxDuration + 1)

VARIABLES
    capacity,          \* cap(p.clients) = cap(p.unhealthyClients)
    idleTimeout,       \* p.idleTimeout
    maxLifeDuration,   \* p.maxLifeDuration
    poolOpen,          \* p.clients # nil (both channel fields are swapped together)
    clients,           \* buffer of the channel made for p.clients
    clientsClosed,     \* close(clients) has run
    unhealthyClients,  \* buffer of the channel made for p.unhealthyClients
    unhealthyClosed,   \* close(unhealthyClients) has run
    counter,           \* ConcurrencyCounter.concurrency of each allocated counter
    connClosed,        \* calls of grpc.ClientConn.Close per connection (2 = two or more)
    made,              \* connections produced by the factory so far
    now,               \* time.Now()
    pc,                \* position of each caller
    wrapper,           \* the local `wrapper` of Get / ClientConn.Close
    err,               \* the local `err` of Get
    handle,            \* the *ClientConn the caller is releasing or has released
    held,              \* bag of the handles returned by Get and not yet released
    res,               \* what the caller's last call returned
    pcClose,           \* position of the goroutine running Pool.Close
    everReleased,      \* history: some ClientConn.Close passed its two checks
    eager,             \* history: factory calls made by NewWithContext
    ctor               \* NewWithContext: its arguments, locals and position

\* What NewWithContext fixes for the life of the pool
cfgVars == <<capacity, idleTimeout, maxLifeDuration, eager, ctor>>

vars == <<capacity, idleTimeout, maxLifeDuration, poolOpen, clients, clientsClosed,
          unhealthyClients, unhealthyClosed, counter, connClosed, made, now,
          pc, wrapper, err, handle, held, res, pcClose, everReleased, eager,
          ctor>>

\* ------------------------------------------------------------- ClientConn
\* ClientConn{pool: p, ClientConn: c, timeUsed: .., timeInitiated: .., concurrency: ..}
ClientConn(c, hasPool, used, initiated, cnt) ==
    [conn |-> c, pool |-> hasPool, timeUsed |-> used, timeInitiated |-> initiated,
     unhealthy |-> FALSE, concurrency |-> cnt]

\* The zero ClientConn: what a receive on a closed, drained channel yields.
ZeroClientConn == ClientConn(NilConn, FALSE, ZeroTime, ZeroTime, NilCounter)

\* ClientConn{pool: p}: the placeholder Get sends after a factory error.
Placeholder == ClientConn(NilConn, TRUE, ZeroTime, ZeroTime, NilCounter)

\* !t.Add(d).After(time.Now()): expired as soon as the duration has passed
Expired_NotAfter(t, d) == t + d <= now

\* t.Add(d).Before(time.Now())
Expired(t, d) == t + d < now

\* ---------------------------------------------------------- NewWithContext
\* NewCapacity without the clamp of lines 86-88
NewCapacity_NoClamp(capArg) == capArg

NewCapacity(capArg) == IF capArg <= 0 THEN 1 ELSE capArg

NewInit(initArg, capArg) ==
    LET i == IF initArg < 0 THEN 0 ELSE initArg
    IN  IF i > NewCapacity(capArg) THEN NewCapacity(capArg) ELSE i

\* The channel after the two filling loops: init live wrappers, then empty ones,
\* each with a counter of its own.
NewClients(initArg, capArg) ==
    [i \in 1..NewCapacity(capArg) |->
        IF i <= NewInit(initArg, capArg)
        THEN ClientConn(i, TRUE, 0, 0, i)
        ELSE ClientConn(NilConn, TRUE, ZeroTime, ZeroTime, i)]

\* NewWithContext has returned the pool; its arguments are not kept.
Constructed == [phase |-> "done"]

Init ==
    \E capArg \in 0..MaxCap, initArg \in (0 - 1)..(MaxCap + 1),
       idleArg \in 0..MaxDuration, lifeArg \in 0..MaxDuration :
        /\ capacity = NewCapacity(capArg)
        /\ idleTimeout = idleArg
        /\ maxLifeDuration = lifeArg
        /\ poolOpen = TRUE
        /\ clients = NewClients(initArg, capArg)
        /\ clientsClosed = FALSE
        /\ unhealthyClients = <<>>
        /\ unhealthyClosed = FALSE
        /\ counter = [i \in 1..MaxCap |-> 0]
        /\ connClosed = [c \in Conns |-> 0]
        /\ made = NewInit(initArg, capArg)
        /\ now = 0
        /\ pc = [p \in Callers |-> "idle"]
        /\ wrapper = [p \in Callers |-> ZeroClientConn]
        /\ err = [p \in Callers |-> FALSE]
        /\ handle = [p \in Callers |-> ZeroClientConn]
        /\ held = EmptyBag
        /\ res = [p \in Callers |-> "none"]
        /\ pcClose = "idle"
        /\ everReleased = FALSE
        /\ eager = NewInit(initArg, capArg)
        /\ ctor = Constructed

\* ------------------------------------------------------------- observers
IsClosed == ~poolOpen
Capacity == IF IsClosed THEN 0 ELSE capacity
Available == IF IsClosed THEN 0 ELSE Len(clients)

\* A panic in one goroutine ends the program.
Crashed == \E p \in Callers : pc[p] = "panic"

\* grpc.ClientConn.Close on connection c
CloseConn(c) == [connClosed EXCEPT ![c] = IF @ < 2 THEN @ + 1 ELSE 2]

\* Gets that may still call the factory
GetsBeforeFactory == {p \in Callers : pc[p] \in {"get_select", "get_check"}}

\* Gets that may still return a handle
GetsInProgress ==
    {p \in Callers : pc[p] \in {"get_select", "get_check", "get_placeholder",
                                 "get_incr", "get_put"}}

\* A handle that was returned by Get and not yet released by ClientConn.Close
Live(h) == h.conn # NilConn

\* Number of handles acquired and not yet released
Outstanding ==
    BagCardinality(held) + Cardinality({p \in Callers : Live(handle[p])})

\* The handles caller p may call Close on: those acquired and not released,
\* and the one its last call left without connection.
Handles(p) == (IF handle[p].pool THEN {handle[p]} ELSE {}) \cup BagToSet(held)

\* ------------------------------------------------------------------ clock
\* The clock is left alone where no code reads it: with both durations
\* disabled, and once the pool is closed and no call is in progress.
Tick ==
    /\ ~Crashed
    /\ now < MaxTime
    /\ idleTimeout > 0 \/ maxLifeDuration > 0
    /\ poolOpen \/ \E p \in Callers : pc[p] # "idle"
    /\ now' = now + 1
    /\ UNCHANGED <<cfgVars, poolOpen, clients, clientsClosed, unhealthyClients,
                   unhealthyClosed, counter, connClosed, made, pc, wrapper,
                   err, handle, held, res, pcClose, everReleased>>

\* -------------------------------------------------------------- Pool.Get
\* Lines 177-180: clients := p.getClients(); a nil channel means ErrClosed.
\* The caller lets go of the handle it released before.
GetStart(p) ==
    /\ ~Crashed
    /\ pc[p] = "idle"
    /\ handle' = [handle EXCEPT ![p] = ZeroClientConn]
    /\ UNCHANGED held
    /\ IF IsClosed
       THEN /\ res' = [res EXCEPT ![p] = "ErrClosed"]
            /\ UNCHANGED pc
       ELSE /\ made + Cardinality(GetsBeforeFactory) < MaxConns
            /\ Outstanding + Cardinality(GetsInProgress) < MaxHandles
            /\ pc' = [pc EXCEPT ![p] = "get_select"]
            /\ res' = [res EXCEPT ![p] = "none"]
    /\ UNCHANGED <<cfgVars, poolOpen, clients, clientsClosed, unhealthyClients,
                   unhealthyClosed, counter, connClosed, made, now, wrapper,
                   err, pcClose, everReleased>>

\* Lines 186-187: case wrapper = <-clients.  On a closed and drained channel the
\* receive yields the zero ClientConn.
GetRecv(p) ==
    /\ ~Crashed
    /\ pc[p] = "get_select"
    /\ IF Len(clients) > 0
       THEN /\ wrapper' = [wrapper EXCEPT ![p] = Head(clients)]
            /\ clients' = Tail(clients)
       ELSE /\ clientsClosed
            /\ wrapper' = [wrapper EXCEPT ![p] = ZeroClientConn]
            /\ UNCHANGED clients
    /\ pc' = [pc EXCEPT ![p] = "get_check"]
    /\ UNCHANGED <<cfgVars, poolOpen, clientsClosed, unhealthyClients,
                   unhealthyClosed, counter, connClosed, made, now, err,
                   handle, held, res, pcClose, everReleased>>

\* Lines 189-190: case <-ctx.Done(): the caller's context ends while Get is in
\* the select (a select with both cases ready may take either).
GetTimeout(p) ==
    /\ ~Crashed
    /\ pc[p] = "get_select"
    /\ pc' = [pc EXCEPT ![p] = "idle"]
    /\ res' = [res EXCEPT ![p] = "ErrTimeout"]
    /\ UNCHANGED <<cfgVars, poolOpen, clients, clientsClosed, unhealthyClients,
                   unhealthyClosed, counter, connClosed, made, now, wrapper,
                   err, handle, held, pcClose, everReleased>>

\* The idle test with twice the timeout
IdleTooLong_Doubled(w) ==
    w.conn # NilConn /\ idleTimeout > 0 /\ Expired(w.timeUsed, 2 * idleTimeout)

\* Lines 196-198: the idle test of Get on the wrapper it received.
IdleTooLong(w) ==
    w.conn # NilConn /\ idleTimeout > 0 /\ Expired(w.timeUsed, idleTimeout)

\* Lines 196-207: the idle eviction, then the factory call when the wrapper has
\* no connection.  ok is the factory's outcome.  Line 215 follows at once when
\* the factory succeeded, and after the placeholder is sent when it failed.
GetCheck(p) ==
    /\ ~Crashed
    /\ pc[p] = "get_check"
    /\ LET w == wrapper[p]
           evict == IdleTooLong(w)
       IN  IF evict \/ w.conn = NilConn
           THEN \E ok \in BOOLEAN :
                  /\ connClosed' = IF evict THEN CloseConn(w.conn) ELSE connClosed
                  /\ IF ok
                     THEN /\ made' = made + 1
                          /\ wrapper' = [wrapper EXCEPT ![p] =
                                [w EXCEPT !.conn = made + 1, !.timeInitiated = now]]
                          /\ pc' = [pc EXCEPT ![p] = "get_incr"]
                          /\ UNCHANGED err
                     ELSE /\ wrapper' = [wrapper EXCEPT ![p] = [w EXCEPT !.conn = NilConn]]
                          /\ err' = [err EXCEPT ![p] = TRUE]
                          /\ pc' = [pc EXCEPT ![p] = "get_placeholder"]
                          /\ UNCHANGED made
           ELSE /\ pc' = [pc EXCEPT ![p] = "get_incr"]
                /\ UNCHANGED <<connClosed, made, wrapper, err>>
    /\ UNCHANGED <<cfgVars, poolOpen, clients, clientsClosed, unhealthyClients,
                   unhealthyClosed, counter, now, handle, held, res, pcClose,
                   everReleased>>

\* Lines 207-215: after a factory error, clients <- ClientConn{pool: p}, then
\* wrapper.timeInitiated = time.Now().  A send on a closed channel panics; a
\* send on a full one waits.
GetPlaceholder(p) ==
    /\ ~Crashed
    /\ pc[p] = "get_placeholder"
    /\ IF clientsClosed
       THEN /\ pc' = [pc EXCEPT ![p] = "panic"]
            /\ UNCHANGED <<clients, wrapper>>
       ELSE /\ Len(clients) < capacity
            /\ clients' = Append(clients, Placeholder)
            /\ wrapper' = [wrapper EXCEPT ![p].timeInitiated = now]
            /\ pc' = [pc EXCEPT ![p] = "get_incr"]
    /\ UNCHANGED <<cfgVars, poolOpen, clientsClosed, unhealthyClients,
                   unhealthyClosed, counter, connClosed, made, now, err,
                   handle, held, res, pcClose, everReleased>>

\* Lines 218-221: wrapper.concurrency.Increment() when the wrapper has a
\* connection; on a nil counter the atomic add dereferences nil and panics.
GetIncr(p) ==
    /\ ~Crashed
    /\ pc[p] = "get_incr"
    /\ LET w == wrapper[p]
       IN  IF w.conn = NilConn
           THEN /\ pc' = [pc EXCEPT ![p] = "get_put"]
                /\ UNCHANGED counter
           ELSE IF w.concurrency = NilCounter
           THEN /\ pc' = [pc EXCEPT ![p] = "panic"]
                /\ UNCHANGED counter
           ELSE /\ counter' = [counter EXCEPT ![w.concurrency] = @ + 1]
                /\ pc' = [pc EXCEPT ![p] = "get_put"]
    /\ UNCHANGED <<cfgVars, poolOpen, clients, clientsClosed, unhealthyClients,
                   unhealthyClosed, connClosed, made, now, wrapper, err,
                   handle, held, res, pcClose, everReleased>>

\* GetPut changed not to send the wrapper back: a checkout that removes the
\* connection from the main queue until it is released.
GetPut_NoRequeue(p) ==
    /\ ~Crashed
    /\ pc[p] = "get_put"
    /\ handle' = [handle EXCEPT ![p] =
                     IF Live(wrapper[p]) THEN ZeroClientConn ELSE wrapper[p]]
    /\ held' = IF Live(wrapper[p]) THEN held (+) SetToBag({wrapper[p]}) ELSE held
    /\ res' = [res EXCEPT ![p] = IF err[p] THEN "ErrFactory" ELSE "nil"]
    /\ pc' = [pc EXCEPT ![p] = "idle"]
    /\ wrapper' = [wrapper EXCEPT ![p] = ZeroClientConn]
    /\ err' = [err EXCEPT ![p] = FALSE]
    /\ UNCHANGED <<cfgVars, poolOpen, clients, clientsClosed, unhealthyClients,
                   unhealthyClosed, counter, connClosed, made, now, pcClose,
                   everReleased>>

\* Lines 222-227: if !wrapper.unhealthy { clients <- wrapper }; return &wrapper, err
\* A handle with a connection joins the handles not yet released; after a
\* factory error the caller is left with a handle without connection.
GetPut(p) ==
    /\ ~Crashed
    /\ pc[p] = "get_put"
    /\ LET w == wrapper[p]
           returned == /\ handle' = [handle EXCEPT ![p] = IF Live(w) THEN ZeroClientConn ELSE w]
                       /\ held' = IF Live(w) THEN held (+) SetToBag({w}) ELSE held
                       /\ res' = [res EXCEPT ![p] = IF err[p] THEN "ErrFactory" ELSE "nil"]
                       /\ pc' = [pc EXCEPT ![p] = "idle"]
                       /\ wrapper' = [wrapper EXCEPT ![p] = ZeroClientConn]
                       /\ err' = [err EXCEPT ![p] = FALSE]
       IN  IF w.unhealthy
           THEN returned /\ UNCHANGED clients
           ELSE IF clientsClosed
           THEN /\ pc' = [pc EXCEPT ![p] = "panic"]
                /\ UNCHANGED <<clients, handle, held, res, wrapper, err>>
           ELSE /\ Len(clients) < capacity
                /\ clients' = Append(clients, w)
                /\ returned
    /\ UNCHANGED <<cfgVars, poolOpen, clientsClosed, unhealthyClients,
                   unhealthyClosed, counter, connClosed, made, now,
                   pcClose, everReleased>>

\* ---------------------------------------------------- ClientConn.Unhealthy
\* Line 233: c.unhealthy = true, on a handle h not yet released.  Once the
\* pool is closed no code reads the flag any more.
Unhealthy(p) ==
    /\ ~Crashed
    /\ pc[p] = "idle"
    /\ poolOpen
    /\ \E h \in BagToSet(held) :
         /\ ~h.unhealthy
         /\ held' = (held (-) SetToBag({h})) (+) SetToBag({[h EXCEPT !.unhealthy = TRUE]})
         /\ UNCHANGED handle
    /\ UNCHANGED <<cfgVars, poolOpen, clients, clientsClosed, unhealthyClients,
                   unhealthyClosed, counter, connClosed, made, now, pc,
                   wrapper, err, res, pcClose, everReleased>>

\* ------------------------------------------------------- ClientConn.Close
\* CCStart without the c.pool.IsClosed() test of lines 246-248.
CCStart_NoClosedTest(p) ==
    /\ ~Crashed
    /\ pc[p] = "idle"
    /\ \E c \in Handles(p) :
         IF c.conn = NilConn
         THEN /\ res' = [res EXCEPT ![p] = "ErrAlreadyClosed"]
              /\ UNCHANGED <<pc, everReleased, handle, held>>
         ELSE /\ pc' = [pc EXCEPT ![p] = "cc_decr"]
              /\ handle' = [handle EXCEPT ![p] = c]
              /\ held' = held (-) SetToBag({c})
              /\ res' = [res EXCEPT ![p] = "none"]
              /\ everReleased' = TRUE
    /\ UNCHANGED <<cfgVars, poolOpen, clients, clientsClosed, unhealthyClients,
                   unhealthyClosed, counter, connClosed, made, now, wrapper, err,
                   pcClose>>

\* Lines 243-248, on a handle c the caller holds: ErrAlreadyClosed when c has no
\* connection, ErrClosed when c.pool.IsClosed().
CCStart(p) ==
    /\ ~Crashed
    /\ pc[p] = "idle"
    /\ \E c \in Handles(p) :
         IF c.conn = NilConn
         THEN /\ res' = [res EXCEPT ![p] = "ErrAlreadyClosed"]
              /\ UNCHANGED <<pc, everReleased, handle, held>>
         ELSE IF IsClosed
         THEN /\ res' = [res EXCEPT ![p] = "ErrClosed"]
              /\ UNCHANGED <<pc, everReleased, handle, held>>
         ELSE /\ pc' = [pc EXCEPT ![p] = "cc_decr"]
              /\ handle' = [handle EXCEPT ![p] = c]
              /\ held' = held (-) SetToBag({c})
              /\ res' = [res EXCEPT ![p] = "none"]
              /\ everReleased' = TRUE
    /\ UNCHANGED <<cfgVars, poolOpen, clients, clientsClosed, unhealthyClients,
                   unhealthyClosed, counter, connClosed, made, now, wrapper,
                   err, pcClose>>

\* Line 251: c.concurrency.Decrement()
CCDecr(p) ==
    /\ ~Crashed
    /\ pc[p] = "cc_decr"
    /\ counter' = [counter EXCEPT ![handle[p].concurrency] = @ - 1]
    /\ pc' = [pc EXCEPT ![p] = "cc_check"]
    /\ UNCHANGED <<cfgVars, poolOpen, clients, clientsClosed, unhealthyClients,
                   unhealthyClosed, connClosed, made, now, wrapper, err,
                   handle, held, res, pcClose, everReleased>>

\* Lines 259-262: the max-lifetime test of ClientConn.Close on handle c.
TooOld(c) == maxLifeDuration > 0 /\ Expired(c.timeInitiated, maxLifeDuration)

\* CCCheck whose healthy branch returns nil without line 283 (c.ClientConn = nil).
CCCheck_KeepConn(p) ==
    /\ ~Crashed
    /\ pc[p] = "cc_check"
    /\ LET c == handle[p]
           unh == c.unhealthy \/ (maxLifeDuration > 0 /\ Expired(c.timeInitiated, maxLifeDuration))
           clone == ClientConn(c.conn, c.pool, now, ZeroTime, c.concurrency)
       IN  IF unh
           THEN /\ handle' = [handle EXCEPT ![p].unhealthy = unh]
                /\ wrapper' = [wrapper EXCEPT ![p] = clone]
                /\ pc' = [pc EXCEPT ![p] =
                             IF counter[c.concurrency] = 0 THEN "cc_evict"
                             ELSE "cc_quarantine"]
                /\ UNCHANGED res
           ELSE /\ res' = [res EXCEPT ![p] = "nil"]
                /\ pc' = [pc EXCEPT ![p] = "idle"]
                /\ UNCHANGED <<handle, wrapper>>
    /\ UNCHANGED <<cfgVars, poolOpen, clients, clientsClosed, unhealthyClients,
                   unhealthyClosed, counter, connClosed, made, now, err, held,
                   pcClose, everReleased>>

\* Lines 259-284: mark the handle unhealthy when too old, clone it, read the
\* counter and take one of the three branches.  The healthy branch only sets
\* timeInitiated on the clone, which nothing refers to afterwards, clears
\* c.ClientConn and returns nil.
CCCheck(p) ==
    /\ ~Crashed
    /\ pc[p] = "cc_check"
    /\ LET c == handle[p]
           unh == c.unhealthy \/ TooOld(c)
           clone == ClientConn(c.conn, c.pool, now, ZeroTime, c.concurrency)
       IN  IF unh /\ counter[c.concurrency] = 0
           THEN /\ handle' = [handle EXCEPT ![p].unhealthy = unh]
                /\ wrapper' = [wrapper EXCEPT ![p] = clone]
                /\ pc' = [pc EXCEPT ![p] = "cc_evict"]
                /\ UNCHANGED res
           ELSE IF unh
           THEN /\ handle' = [handle EXCEPT ![p].unhealthy = unh]
                /\ wrapper' = [wrapper EXCEPT ![p] = clone]
                /\ pc' = [pc EXCEPT ![p] = "cc_quarantine"]
                /\ UNCHANGED res
           ELSE /\ handle' = [handle EXCEPT ![p].conn = NilConn]
                /\ wrapper' = [wrapper EXCEPT ![p] = ZeroClientConn]
                /\ res' = [res EXCEPT ![p] = "nil"]
                /\ pc' = [pc EXCEPT ![p] = "idle"]
    /\ UNCHANGED <<cfgVars, poolOpen, clients, clientsClosed, unhealthyClients,
                   unhealthyClosed, counter, connClosed, made, now, err, held,
                   pcClose, everReleased>>

\* Lines 273-274 and 283-284: wrapper.ClientConn.Close(); wrapper.ClientConn = nil;
\* c.ClientConn = nil; return nil
CCEvict(p) ==
    /\ ~Crashed
    /\ pc[p] = "cc_evict"
    /\ connClosed' = CloseConn(wrapper[p].conn)
    /\ wrapper' = [wrapper EXCEPT ![p] = ZeroClientConn]
    /\ handle' = [handle EXCEPT ![p].conn = NilConn]
    /\ res' = [res EXCEPT ![p] = "nil"]
    /\ pc' = [pc EXCEPT ![p] = "idle"]
    /\ UNCHANGED <<cfgVars, poolOpen, clients, clientsClosed, unhealthyClients,
                   unhealthyClosed, counter, made, now, err, held, pcClose,
                   everReleased>>

\* Lines 278 and 283-284: c.pool.unhealthyClients <- wrapper.  The field is read
\* without the mutex: once Pool.Close has swapped it, the read races with that
\* write and yields the channel or nil.  A send on a nil channel waits for
\* ever, a send on a closed channel panics, a send on a full channel waits.
CCQuarantine(p) ==
    /\ ~Crashed
    /\ pc[p] = "cc_quarantine"
    /\ \E sawNil \in (IF poolOpen THEN {FALSE} ELSE BOOLEAN) :
         IF sawNil
         THEN /\ pc' = [pc EXCEPT ![p] = "cc_nil_send"]
              /\ UNCHANGED <<unhealthyClients, wrapper, handle, res>>
         ELSE IF unhealthyClosed
         THEN /\ pc' = [pc EXCEPT ![p] = "panic"]
              /\ UNCHANGED <<unhealthyClients, wrapper, handle, res>>
         ELSE /\ Len(unhealthyClients) < capacity
              /\ unhealthyClients' = Append(unhealthyClients, wrapper[p])
              /\ wrapper' = [wrapper EXCEPT ![p] = ZeroClientConn]
              /\ handle' = [handle EXCEPT ![p].conn = NilConn]
              /\ res' = [res EXCEPT ![p] = "nil"]
              /\ pc' = [pc EXCEPT ![p] = "idle"]
    /\ UNCHANGED <<cfgVars, poolOpen, clients, clientsClosed, unhealthyClosed,
                   counter, connClosed, made, now, err, held, pcClose,
                   everReleased>>

\* ------------------------------------------------------------ Pool.Close
\* Lines 139-144: under the mutex, take both channels and set the fields to nil.
\* A call that finds them nil already skips both blocks and returns.
PoolCloseSwap ==
    /\ ~Crashed
    /\ pcClose = "idle"
    /\ IF poolOpen
       THEN /\ poolOpen' = FALSE
            /\ pcClose' = "close_clients"
       ELSE UNCHANGED <<poolOpen, pcClose>>
    /\ UNCHANGED <<cfgVars, clients, clientsClosed, unhealthyClients,
                   unhealthyClosed, counter, connClosed, made, now, pc,
                   wrapper, err, handle, held, res, everReleased>>

\* Line 147: close(clients)
PoolCloseClients ==
    /\ ~Crashed
    /\ pcClose = "close_clients"
    /\ clientsClosed' = TRUE
    /\ pcClose' = "drain_clients"
    /\ UNCHANGED <<cfgVars, poolOpen, clients, unhealthyClients,
                   unhealthyClosed, counter, connClosed, made, now, pc,
                   wrapper, err, handle, held, res, everReleased>>

\* The draining loop without line 152 (client.ClientConn.Close())
PoolDrainClients_NoClose ==
    /\ ~Crashed
    /\ pcClose = "drain_clients"
    /\ IF Len(clients) > 0
       THEN clients' = Tail(clients) /\ UNCHANGED pcClose
       ELSE pcClose' = "close_unhealthy" /\ UNCHANGED clients
    /\ UNCHANGED <<cfgVars, poolOpen, clientsClosed, unhealthyClients,
                   unhealthyClosed, counter, connClosed, made, now, pc, wrapper,
                   err, handle, held, res, everReleased>>

\* Lines 148-153: one turn of `for client := range clients`.
PoolDrainClients ==
    /\ ~Crashed
    /\ pcClose = "drain_clients"
    /\ IF Len(clients) > 0
       THEN /\ clients' = Tail(clients)
            /\ connClosed' = IF Head(clients).conn = NilConn THEN connClosed
                             ELSE CloseConn(Head(clients).conn)
            /\ UNCHANGED pcClose
       ELSE /\ pcClose' = "close_unhealthy"
            /\ UNCHANGED <<clients, connClosed>>
    /\ UNCHANGED <<cfgVars, poolOpen, clientsClosed, unhealthyClients,
                   unhealthyClosed, counter, made, now, pc, wrapper, err,
                   handle, held, res, everReleased>>

\* Line 157: close(unhealthyClients)
PoolCloseUnhealthy ==
    /\ ~Crashed
    /\ pcClose = "close_unhealthy"
    /\ unhealthyClosed' = TRUE
    /\ pcClose' = "drain_unhealthy"
    /\ UNCHANGED <<cfgVars, poolOpen, clients, clientsClosed, unhealthyClients,
                   counter, connClosed, made, now, pc, wrapper, err, handle,
                   held, res, everReleased>>

\* Lines 158-163: one turn of `for client := range unhealthyClients`.
PoolDrainUnhealthy ==
    /\ ~Crashed
    /\ pcClose = "drain_unhealthy"
    /\ IF Len(unhealthyClients) > 0
       THEN /\ unhealthyClients' = Tail(unhealthyClients)
            /\ connClosed' = IF Head(unhealthyClients).conn = NilConn THEN connClosed
                             ELSE CloseConn(Head(unhealthyClients).conn)
            /\ UNCHANGED pcClose
       ELSE /\ pcClose' = "idle"
            /\ UNCHANGED <<unhealthyClients, connClosed>>
    /\ UNCHANGED <<cfgVars, poolOpen, clients, clientsClosed, unhealthyClosed,
                   counter, made, now, pc, wrapper, err, handle, held, res,
                   everReleased>>

\* ------------------------------------------------------------ specification
Next ==
    \/ Tick
    \/ \E p \in Callers : GetStart(p)
    \/ \E p \in Callers : GetRecv(p)
    \/ \E p \in Callers : GetTimeout(p)
    \/ \E p \in Callers : GetCheck(p)
    \/ \E p \in Callers : GetPlaceholder(p)
    \/ \E p \in Callers : GetIncr(p)
    \/ \E p \in Callers : GetPut(p)
    \/ \E p \in Callers : Unhealthy(p)
    \/ \E p \in Callers : CCStart(p)
    \/ \E p \in Callers : CCDecr(p)
    \/ \E p \in Callers : CCCheck(p)
    \/ \E p \in Callers : CCEvict(p)
    \/ \E p \in Callers : CCQuarantine(p)
    \/ PoolCloseSwap
    \/ PoolCloseClients
    \/ PoolDrainClients
    \/ PoolCloseUnhealthy
    \/ PoolDrainUnhealthy

Spec == Init /\ [][Next]_vars

\* ------------------------------------------- NewWithContext, step by step
\* The call of NewWithContext(ctx, factory, init, capacity, idleTimeout,
\* maxLifeDuration): `capacity` holds the parameter, ctor.init the parameter
\* init, ctor.i the loop variable; no pool exists for the caller until the
\* function returns one.
InitNew ==
    \E capArg \in (0 - 1)..MaxCapArg, initArg \in (0 - 1)..(MaxCapArg + 1),
       idleArg \in 0..MaxDuration, lifeArg \in 0..MaxDuration :
        /\ ctor = [phase |-> "start", capArg |-> capArg, initArg |-> initArg,
                   init |-> initArg, i |-> 0, idleArg |-> idleArg, lifeArg |-> lifeArg]
        /\ capacity = capArg
        /\ idleTimeout = 0
        /\ maxLifeDuration = 0
        /\ poolOpen = FALSE
        /\ clients = <<>>
        /\ clientsClosed = FALSE
        /\ unhealthyClients = <<>>
        /\ unhealthyClosed = FALSE
        /\ counter = <<>>
        /\ connClosed = [c \in 1..(MaxCapArg + 1) |-> 0]
        /\ made = 0
        /\ now = 0
        /\ pc = [p \in Callers |-> "idle"]
        /\ wrapper = [p \in Callers |-> ZeroClientConn]
        /\ err = [p \in Callers |-> FALSE]
        /\ handle = [p \in Callers |-> ZeroClientConn]
        /\ held = EmptyBag
        /\ res = [p \in Callers |-> "none"]
        /\ pcClose = "idle"
        /\ everReleased = FALSE
        /\ eager = 0

\* What the steps of NewWithContext leave alone
newFixed == <<clientsClosed, unhealthyClients, unhealthyClosed,
              connClosed, now, pc, wrapper, err, handle, held, res, pcClose,
              everReleased>>

\* Lines 86-103: clamp capacity and init, make the channels, set the durations.
NewClamp ==
    /\ ctor.phase = "start"
    /\ capacity' = NewCapacity(ctor.capArg)
    /\ ctor' = [ctor EXCEPT !.init = NewInit(ctor.initArg, ctor.capArg),
                            !.phase = "eager"]
    /\ idleTimeout' = ctor.idleArg
    /\ maxLifeDuration' = ctor.lifeArg
    /\ UNCHANGED <<clients, counter, made, eager, poolOpen, newFixed>>

\* Lines 104-117: one turn of the first loop, or its end.  ok is the factory's
\* outcome; on an error NewWithContext returns nil and the error.
NewEager ==
    /\ ctor.phase = "eager"
    /\ IF ctor.i < ctor.init
       THEN \E ok \in BOOLEAN :
              IF ok
              THEN /\ Len(clients) < capacity
                   /\ made' = made + 1
                   /\ eager' = eager + 1
                   /\ counter' = Append(counter, 0)
                   /\ clients' = Append(clients,
                          ClientConn(made + 1, TRUE, now, now, Len(counter) + 1))
                   /\ ctor' = [ctor EXCEPT !.i = @ + 1]
              ELSE /\ ctor' = [ctor EXCEPT !.phase = "failed"]
                   /\ UNCHANGED <<made, eager, counter, clients>>
       ELSE /\ ctor' = [ctor EXCEPT !.phase = "fill", !.i = 0]
            /\ UNCHANGED <<made, eager, counter, clients>>
    /\ UNCHANGED <<capacity, idleTimeout, maxLifeDuration, poolOpen, newFixed>>

\* Lines 118-125: one turn of the second loop, or return p, nil.
NewFill ==
    /\ ctor.phase = "fill"
    /\ IF ctor.i < capacity - ctor.init
       THEN /\ Len(clients) < capacity
            /\ counter' = Append(counter, 0)
            /\ clients' = Append(clients,
                   ClientConn(NilConn, TRUE, ZeroTime, ZeroTime, Len(counter) + 1))
            /\ ctor' = [ctor EXCEPT !.i = @ + 1]
            /\ UNCHANGED poolOpen
       ELSE /\ ctor' = [ctor EXCEPT !.phase = "returned"]
            /\ poolOpen' = TRUE
            /\ UNCHANGED <<counter, clients>>
    /\ UNCHANGED <<capacity, idleTimeout, maxLifeDuration, made, eager, newFixed>>

NextNew == NewClamp \/ NewEager \/ NewFill

SpecNew == InitNew /\ [][NextNew]_vars

TypeOK ==
    /\ capacity \in 1..MaxCap
    /\ Len(clients) <= capacity
    /\ Len(unhealthyClients) <= capacity
    /\ made \in 0..MaxConns
    /\ now \in 0..MaxTime
    /\ Outstanding <= MaxHandles
    /\ \A i \in 1..MaxCap : counter[i] \in 0..MaxHandles

\* ------------------------------------------------------------------ claims
\* No call is in progress.
Quiet == pcClose = "idle" /\ \A p \in Callers : pc[p] = "idle"

\* The connections of the wrappers in a channel buffer
ConnsIn(q) == {q[i].conn : i \in 1..Len(q)} \ {NilConn}

\* C1: on an open pool, Available() plus the number of handles returned by Get
\* and not yet released equals Capacity() (stated where no call is in progress).
C1_AvailablePlusOutstanding ==
    (poolOpen /\ Quiet) => Available + Outstanding = Capacity

\* C2: with capacity 1 and one handle acquired and not released, a second Get
\* obtains no client, so two handles are never out at once.
C2_SecondGetWaits ==
    (poolOpen /\ capacity = 1) => Outstanding <= 1

\* C3: while the pool is open, no handle that was acquired and not yet released
\* refers to a connection the pool has closed.
C3_NoHandleOnClosedConn ==
    poolOpen => \A h \in BagToSet(held) : connClosed[h.conn] = 0

\* C4: a Get whose factory call failed puts one placeholder back and returns
\* without waiting: it is never left with a send on the full main queue.
C4_FactoryErrorReturns ==
    \A p \in Callers :
        (poolOpen /\ err[p] /\ pc[p] = "get_put") => Len(clients) < capacity

\* C5: once a handle was released while unhealthy with its counter at zero, the
\* connection is closed and the pool's slot for it is empty: the main queue
\* holds no closed connection for the next Get to return.
C5_EvictedSlotIsEmpty ==
    poolOpen => \A c \in ConnsIn(clients) : connClosed[c] = 0

\* Gets that hold a wrapper they received and have not sent back
GetsHoldingWrapper ==
    {p \in Callers : pc[p] \in {"get_check", "get_placeholder", "get_incr", "get_put"}}

Acted(p) == res'[p] # res[p] \/ handle'[p] # handle[p] \/ pc'[p] # pc[p]

\* C7: closure is one-way and terminal.  Once the pool is closed it stays so,
\* Capacity() and Available() report 0, and a call that a caller starts then
\* returns at once, ErrClosed from Get and from ClientConn.Close on a handle that
\* holds its connection (ErrAlreadyClosed only on a handle without connection),
\* with no dequeue, no factory call and no change of a usage counter.
C7_ClosedIsTerminal ==
    [][ IsClosed =>
          /\ IsClosed'
          /\ Capacity = 0 /\ Available = 0
          /\ \A p \in Callers :
               pc[p] = "idle" =>
                 /\ pc'[p] = "idle"
                 /\ Acted(p) =>
                      /\ res'[p] \in {"ErrClosed", "ErrAlreadyClosed"}
                      /\ res'[p] = "ErrAlreadyClosed" => ~Live(handle[p])
                      /\ UNCHANGED <<clients, unhealthyClients, counter, made,
                                     held, connClosed>> ]_vars

\* C7 witness: Pool.Close has returned, a handle is still not released, and a
\* call made afterwards returned ErrClosed.
C7_Witness ==
    /\ IsClosed /\ Quiet
    /\ BagCardinality(held) > 0
    /\ \E p \in Callers : res[p] = "ErrClosed"

\* C8: Pool.Close running beside Get and ClientConn.Close makes no call panic.
C8_NoPanicOnClose ==
    IsClosed => ~Crashed

\* C9: ClientConn.Close never waits: when it is about to send an unhealthy
\* handle that is still in use to the quarantine queue, there is room for it.
C9_ReleaseNeverWaits ==
    \A p \in Callers :
        (poolOpen /\ pc[p] = "cc_quarantine") => Len(unhealthyClients) < capacity

\* C10: a connection that was moved to the quarantine queue is out of the main
\* queue, so that no later Get returns it.
C10_QuarantinedLeavesMainQueue ==
    poolOpen => ConnsIn(unhealthyClients) \cap ConnsIn(clients) = {}

\* Caller p's last call was a ClientConn.Close that returned nil; handle[p] is
\* the handle it released (after a Get, handle[p] belongs to no pool).
Released(p) == pc[p] = "idle" /\ res[p] = "nil" /\ handle[p].pool

\* A step in which caller p calls ClientConn.Close on handle[p] and the call
\* returns something new: Get would let go of the handle, Unhealthy and a Close
\* on another handle would change the handles not yet released.
ClosesAgain(p) == handle'[p] = handle[p] /\ held' = held /\ res'[p] # res[p]

\* C11: on an open pool, a handle whose ClientConn.Close returned nil is marked
\* closed, and a further ClientConn.Close on it returns ErrAlreadyClosed at once
\* and leaves the usage counters, both queues and Available() unchanged.
C11_ReleaseIdempotent ==
    [][ \A p \in Callers :
          (poolOpen /\ Released(p)) =>
             /\ ~Live(handle[p])
             /\ ClosesAgain(p) =>
                  /\ res'[p] = "ErrAlreadyClosed"
                  /\ pc'[p] = "idle"
                  /\ Available' = Available
                  /\ UNCHANGED <<counter, clients, unhealthyClients, connClosed,
                                 made>> ]_vars

\* C11 witness: on a pool whose factory was never called by Get, a handle was
\* released and ClientConn.Close was called on it again.
C11_Witness ==
    /\ poolOpen /\ capacity = 1 /\ eager = 1 /\ made = 1 /\ idleTimeout = 0
    /\ everReleased
    /\ \E p \in Callers :
         /\ pc[p] = "idle" /\ res[p] = "ErrAlreadyClosed"
         /\ handle[p].pool /\ handle[p].concurrency = 1 /\ ~Live(handle[p])

\* C12: with capacity 1, one connection made at construction, idle timeout
\* disabled and max lifetime disabled or not yet expired, Get / ClientConn.Close
\* cycles never call the factory again, every Get returns that connection, the
\* copy in the main queue is never unhealthy and no ClientConn.Close finds its
\* handle too old.
C12_ReuseFactoryOnce ==
    (/\ poolOpen /\ capacity = 1 /\ eager = 1 /\ idleTimeout = 0
     /\ maxLifeDuration = 0 \/ now <= maxLifeDuration) =>
        /\ made = 1
        /\ \A h \in BagToSet(held) : h.conn = 1
        /\ \A p \in Callers :
             /\ pc[p] \in {"get_incr", "get_put"} => wrapper[p].conn = 1
             /\ pc[p] = "cc_check" => ~TooOld(handle[p])
        /\ \A i \in 1..Len(clients) : clients[i].conn = 1 /\ ~clients[i].unhealthy

\* C12 witness: with a max lifetime that has not expired, each caller has done
\* a Get / ClientConn.Close cycle on the connection made at construction, which
\* is still open.
C12_Witness ==
    /\ poolOpen /\ capacity = 1 /\ eager = 1 /\ idleTimeout = 0
    /\ maxLifeDuration = 1 /\ now = 1
    /\ held = EmptyBag /\ counter[1] = 0 /\ connClosed[1] = 0
    /\ \A p \in Callers : Released(p) /\ ~handle[p].unhealthy

\* C13: with idle timeout enabled, a Get that dequeues a live connection more
\* than the timeout after the connection was made (so also more than the
\* timeout after any release of it, a release coming after the creation) closes
\* that connection and calls the factory; when the factory succeeds Get goes on
\* with the new connection, which is open and is not the idle one.
C13_IdleReplaced ==
    [][ \A p \in Callers :
          (/\ pc[p] = "get_check" /\ pc'[p] # "get_check"
           /\ idleTimeout > 0
           /\ Live(wrapper[p])
           /\ Expired(wrapper[p].timeInitiated, idleTimeout)) =>
             /\ connClosed' = CloseConn(wrapper[p].conn)
             /\ pc'[p] \in {"get_incr", "get_placeholder"}
             /\ pc'[p] = "get_placeholder" => (err'[p] /\ made' = made)
             /\ pc'[p] = "get_incr" =>
                  /\ made' = made + 1
                  /\ wrapper'[p].conn = made'
                  /\ wrapper'[p].conn # wrapper[p].conn
                  /\ connClosed'[wrapper'[p].conn] = 0 ]_vars

\* C13 witness: the connection made at construction (time 0) was handed out
\* and released, no handle is out, and at time 2 > 0 + idleTimeout a Get has
\* dequeued it and is about to test it.
C13_Witness ==
    /\ poolOpen /\ capacity = 1 /\ eager = 1 /\ idleTimeout = 1 /\ now = 2
    /\ everReleased /\ held = EmptyBag /\ counter[1] = 0
    /\ made = 1 /\ connClosed[1] = 0
    /\ \E p \in Callers :
         /\ pc[p] = "get_check" /\ wrapper[p].conn = 1
         /\ \A q \in Callers \ {p} : Released(q)

\* C14: for every pair (init, capacity), NewWithContext makes no more than
\* min(max(init, 0), max(1, capacity)) factory calls; when they all succeed it
\* returns a pool with Capacity() = max(1, capacity) and Available() = Capacity()
\* after exactly that many calls, the queue being the one Init starts from; when
\* one of them fails it returns the error and no pool.
C14_ConstructorClamps ==
    ctor.phase # "done" =>
        LET cap == IF ctor.capArg > 1 THEN ctor.capArg ELSE 1
            pos == IF ctor.initArg > 0 THEN ctor.initArg ELSE 0
            n   == IF pos < cap THEN pos ELSE cap
        IN  /\ made <= n /\ eager = made
            /\ ctor.phase = "returned" =>
                 /\ poolOpen
                 /\ Capacity = cap /\ Available = Capacity
                 /\ made = n
                 /\ clients = NewClients(ctor.initArg, ctor.capArg)
            /\ ctor.phase = "failed" => (~poolOpen /\ made < n)
            /\ ctor.phase # "returned" => ~poolOpen

\* C14 witness: New(factory, init, capacity) with capacity <= 0 and init > 1
\* returned a pool, after one factory call.
C14_Witness ==
    /\ ctor.phase = "returned"
    /\ ctor.capArg <= 0 /\ ctor.initArg > 1
    /\ made = 1 /\ Len(clients) = 1

\* C15: the copy of a live connection in the main queue carries a last-use time
\* no earlier than the connection's creation (set when the connection is made,
\* moved forward by each healthy ClientConn.Close), so that a Get within the
\* idle timeout of the creation or of the last release reuses the connection.
C15_LastUseRecorded ==
    poolOpen =>
        \A i \in 1..Len(clients) :
            Live(clients[i]) => clients[i].timeUsed >= clients[i].timeInitiated

\* Number of handles on connection c returned by Get and not yet released
HandlesOn(c) ==
    LET on == {h \in BagToSet(held) : h.conn = c}
    IN  BagCardinality([h \in on |-> CopiesIn(h, held)])
          + Cardinality({p \in Callers : handle[p].conn = c})

\* C16: while the pool is open and no call is in progress, the usage counter
\* that the handles of a connection report equals the number of handles on
\* that connection that were returned by Get and not yet released.
C16_CounterCountsHandles ==
    (poolOpen /\ Quiet) =>
        \A h \in BagToSet(held) : counter[h.concurrency] = HandlesOn(h.conn)

\* C17: a Get that got a connection from the factory, also for a placeholder
\* left by a failed Get, has a usage counter to increment.
C17_PlaceholderReusable ==
    \A p \in Callers :
        (poolOpen /\ pc[p] = "get_incr" /\ Live(wrapper[p])) =>
            wrapper[p].concurrency # NilCounter

\* A factory call of Get has failed: its Get is still in progress, or the
\* placeholder it sent (the only wrappers made without a counter while the pool
\* is open) is in the main queue or in the hands of a later Get.
FactoryFailed ==
    \/ \E p \in Callers : err[p]
    \/ \E i \in 1..Len(clients) : clients[i].concurrency = NilCounter
    \/ \E p \in GetsHoldingWrapper : wrapper[p].concurrency = NilCounter

C19_NoLeakOnClose ==
    (IsClosed /\ Quiet) => \A c \in 1..made : connClosed[c] >= 1

\* C19 witness: Pool.Close has returned with a handle still not released; two
\* connections were made, one replaced by the other; both are closed.
C19_Witness ==
    /\ IsClosed /\ Quiet
    /\ made = 2
    /\ BagCardinality(held) > 0
    /\ \A c \in 1..made : connClosed[c] >= 1

\* C20: every connection the factory produced is closed at most once.
C20_ClosedAtMostOnce ==
    \A c \in Conns : connClosed[c] <= 1

====
